---- MODULE Spec2Model ----
(***************************************************************************)
(* tcstruct: C-type structures declared with type annotations.             *)
(*                                                                         *)
(* The model follows src/tcstruct/__init__.py: the primitive type catalog, *)
(* the metaclass TCStructMeta.__new__ that builds _fields_ and hands the   *)
(* class to ctypes, and TCStruct.__init__ / from_bytes / to_bytes.  The    *)
(* behaviour of ctypes.Structure that the library relies on (layout of     *)
(* _fields_ behind the storage of the base class, masking integer          *)
(* assignment, from_buffer_copy, bytes()) is modelled at the lines of the  *)
(* source that call it.                                                    *)
(*                                                                         *)
(* A 64-bit integer does not fit the integers of TLC, so a stored scalar   *)
(* is always a sequence of bytes (two's complement or IEEE-754 digits); a  *)
(* Python int is converted digit by digit.                                 *)
(***************************************************************************)
EXTENDS Integers, Sequences, FiniteSets, TLC

VARIABLES
    byteorder,  \* sys.byteorder of the host
    classes,    \* the classes defined so far, indexed by class id
    lists,      \* the heap of Python list objects (a _fields_ attribute is a reference)
    call,       \* the last operation and its arguments
    rec,        \* the record the last construct / from_bytes returned (or NoRec)
    out,        \* the bytes the last to_bytes returned
    outof       \* the record that to_bytes encoded

vars == <<byteorder, classes, lists, call, rec, out, outof>>

(***************************************************************************)
(* Bounds of the model.                                                    *)
(***************************************************************************)
MaxClasses == 2     \* user-defined record types per run
MaxExtra == 1       \* bytes beyond (or short of) the size offered to from_bytes

(***************************************************************************)
(* Generic helpers.                                                        *)
(***************************************************************************)
Min(a, b) == IF a < b THEN a ELSE b

Max(a, b) == IF a > b THEN a ELSE b

Range(s) == {s[i] : i \in DOMAIN s}

RECURSIVE Reverse(_)
Reverse(s) == IF s = <<>> THEN <<>> ELSE Append(Reverse(Tail(s)), Head(s))

RECURSIVE Zeros(_)
Zeros(n) == IF n <= 0 THEN <<>> ELSE <<0>> \o Zeros(n - 1)

\* s with the bytes at offset .. offset+Len(b)-1 (0-based offset) replaced by b
Poke(s, offset, b) ==
    [i \in 1..Len(s) |->
        IF i > offset /\ i <= offset + Len(b) THEN b[i - offset] ELSE s[i]]

Peek(s, offset, n) == SubSeq(s, offset + 1, offset + n)

(***************************************************************************)
(* Primitive type catalog (class attributes _bitwidth, _signed).           *)
(***************************************************************************)
Kinds == {"uint8_t", "uint16_t", "uint32_t", "uint64_t",
          "sint8_t", "sint16_t", "sint32_t", "sint64_t",
          "float32_t", "float64_t"}

_bitwidth(k) ==
    CASE k \in {"uint8_t", "sint8_t"} -> 8
      [] k \in {"uint16_t", "sint16_t"} -> 16
      [] k \in {"uint32_t", "sint32_t", "float32_t"} -> 32
      [] k \in {"uint64_t", "sint64_t", "float64_t"} -> 64

_signed(k) == k \in {"sint8_t", "sint16_t", "sint32_t", "sint64_t",
                     "float32_t", "float64_t"}

IsFloat(k) == k \in {"float32_t", "float64_t"}

\* an annotation: a catalog type, or catalog type[item] (tcstruct_type.__class_getitem__)
Scalar(k) == [kind |-> k, _array |-> 0]

ArrayOf(k, item) == [kind |-> k, _array |-> item]

(***************************************************************************)
(* gettype / _gettype: the ctypes type of an annotation.  A ctypes type is *)
(* its kind, its array length (0: scalar) and the byte order it stores in; *)
(* _ctype is the host-order type, _other_endian the opposite one.          *)
(***************************************************************************)
OtherOrder(o) == IF o = "little" THEN "big" ELSE "little"

_gettype(x, host) == [kind |-> x.kind, length |-> x._array, order |-> host]

_other_endian(typ) == [typ EXCEPT !.order = OtherOrder(typ.order)]

gettype(x, swap, host) ==
    IF swap THEN _other_endian(_gettype(x, host)) ELSE _gettype(x, host)

ElemSize(typ) == _bitwidth(typ.kind) \div 8

SizeOf(typ) == ElemSize(typ) * Max(typ.length, 1)

(***************************************************************************)
(* Classes.  A class has one base (0: none), its own attribute            *)
(* dictionary (has: the names it defines itself) and the storage           *)
(* description ctypes computed for it when it was created.                 *)
(***************************************************************************)
StructureId == 1

TCStructId == 2

LittleEndianStructId == 3

BigEndianStructId == 4

\* Struct = LittleEndianStruct if sys.byteorder == 'little' else BigEndianStruct
StructId(host) == IF host = "little" THEN LittleEndianStructId ELSE BigEndianStructId

\* c.__mro__, which Python computes when the class is created
Mro(cls, c) == cls[c].mro

hasattr(cls, c, a) == \E i \in DOMAIN Mro(cls, c) : a \in cls[Mro(cls, c)[i]].has

\* the class of the MRO whose dictionary answers the lookup of a
Owner(cls, c, a) ==
    LET m == Mro(cls, c)
        i == CHOOSE j \in DOMAIN m :
                /\ a \in cls[m[j]].has
                /\ \A k \in 1..(j - 1) : a \notin cls[m[k]].has
    IN  m[i]

issubclass(cls, c, d) == \E i \in DOMAIN Mro(cls, c) : Mro(cls, c)[i] = d

\* aname.startswith('_')
startswith_(aname) == aname \in {"__bytes__", "_reserved"}

(***************************************************************************)
(* ctypes: the layout of a Structure subclass whose dictionary has         *)
(* _fields_.  The fields are placed behind the storage of the base class,  *)
(* each at the next offset that satisfies its alignment (capped by _pack_);*)
(* the size is rounded up to the largest alignment.                        *)
(***************************************************************************)
\* as FieldAlign, but _pack_ is ignored
FieldAlignUnpacked(typ, pack) == ElemSize(typ)

FieldAlign(typ, pack) == IF pack > 0 THEN Min(pack, ElemSize(typ)) ELSE ElemSize(typ)

AlignUp(offset, align) ==
    IF offset % align = 0 THEN offset ELSE offset + (align - (offset % align))

RECURSIVE PlaceFields(_, _, _, _)
PlaceFields(fields, offset, align, pack) ==
    IF fields = <<>>
    THEN [descr |-> <<>>, offset |-> offset, align |-> align]
    ELSE LET f == Head(fields)
             a == FieldAlign(f.typ, pack)
             at == AlignUp(offset, a)
             rest == PlaceFields(Tail(fields), at + SizeOf(f.typ), Max(align, a), pack)
         IN  [rest EXCEPT !.descr =
                <<[name |-> f.name, offset |-> at, typ |-> f.typ]>> \o rest.descr]

StructLayout(fields, basestg, pack) ==
    LET p == PlaceFields(fields, basestg.size, basestg.align, pack)
    IN  [size |-> AlignUp(p.offset, p.align), align |-> p.align, descr |-> p.descr]

NoStorage == [size |-> 0, align |-> 1, descr |-> <<>>]

(***************************************************************************)
(* TCStructMeta.__new__(cls, name, bases, attrs).  attrs gives the class   *)
(* body: _byteorder ("absent" when the body does not assign it), _pack_    *)
(* (0: absent), _swappedbytes_, and the annotations (has_ann: whether      *)
(* '__annotations__' is in attrs).  The result is the new class table and  *)
(* the new heap.                                                           *)
(***************************************************************************)
ClassBody(bo, pack, swapped, has_ann, ann) ==
    [_byteorder |-> bo, _pack_ |-> pack, _swappedbytes_ |-> swapped,
     has_ann |-> has_ann, ann |-> ann]

BodyNames(attrs) ==
    (IF attrs._byteorder # "absent" THEN {"_byteorder"} ELSE {})
    \cup (IF attrs._pack_ # 0 THEN {"_pack_"} ELSE {})
    \cup (IF attrs._swappedbytes_ THEN {"_swappedbytes_"} ELSE {})

\* as FieldsBase, but the list of the ancestor itself is taken, not a copy of it
FieldsBaseShared(cls, lsts, base) ==
    IF hasattr(cls, base, "_fields_")
    THEN [ref |-> cls[Owner(cls, base, "_fields_")]._fields_, lists |-> lsts]
    ELSE [ref |-> Len(lsts) + 1, lists |-> Append(lsts, <<>>)]

\* fields_base = next(list(b._fields_) for base in bases for b in base.__mro__ if ...):
\* the list to start from, and the heap after the copy was allocated
FieldsBase(cls, lsts, base) ==
    IF hasattr(cls, base, "_fields_")
    THEN LET src == cls[Owner(cls, base, "_fields_")]._fields_
         IN  [ref |-> Len(lsts) + 1, lists |-> Append(lsts, lsts[src])]
    ELSE [ref |-> Len(lsts) + 1, lists |-> Append(lsts, <<>>)]

\* byteorder = attrs.get('_byteorder', None), else the first inherited one
DeclaredOrder(cls, base, attrs) ==
    IF attrs._byteorder # "absent" THEN attrs._byteorder
    ELSE IF \E i \in DOMAIN Mro(cls, base) :
                /\ issubclass(cls, Mro(cls, base)[i], TCStructId)
                /\ hasattr(cls, Mro(cls, base)[i], "_byteorder")
         THEN LET m == Mro(cls, base)
                  i == CHOOSE j \in DOMAIN m :
                        /\ issubclass(cls, m[j], TCStructId) /\ hasattr(cls, m[j], "_byteorder")
                        /\ \A k \in 1..(j - 1) :
                              ~(issubclass(cls, m[k], TCStructId) /\ hasattr(cls, m[k], "_byteorder"))
              IN  cls[Owner(cls, m[i], "_byteorder")]._byteorder
         ELSE "None"

\* as NewFields, but the fields come out in reverse declaration order
RECURSIVE NewFieldsReversed(_, _, _)
NewFieldsReversed(ann, swap, host) ==
    IF ann = <<>> THEN <<>>
    ELSE NewFieldsReversed(Tail(ann), swap, host)
         \o (IF startswith_(Head(ann).name) THEN <<>>
             ELSE <<[name |-> Head(ann).name, typ |-> gettype(Head(ann).type, swap, host)]>>)

\* [(aname, gettype(atype, swap)) for aname, atype in annotations if not aname.startswith('_')]
RECURSIVE NewFields(_, _, _)
NewFields(ann, swap, host) ==
    IF ann = <<>> THEN <<>>
    ELSE (IF startswith_(Head(ann).name) THEN <<>>
          ELSE <<[name |-> Head(ann).name, typ |-> gettype(Head(ann).type, swap, host)]>>)
         \o NewFields(Tail(ann), swap, host)

\* fields.extend(...): the list object behind ref grows in place
Extend(lsts, ref, items) == [lsts EXCEPT ![ref] = lsts[ref] \o items]

\* the _pack_ ctypes reads from the new class (own or inherited)
EffectivePack(cls, base, attrs) ==
    IF attrs._pack_ # 0 THEN attrs._pack_
    ELSE IF base # 0 /\ hasattr(cls, base, "_pack_")
         THEN cls[Owner(cls, base, "_pack_")]._pack_
         ELSE 0

BaseStorage(cls, base) == IF base = 0 THEN NoStorage ELSE cls[base].stg

MetaNew(cls, lsts, host, base, attrs) ==
    LET fb == FieldsBase(cls, lsts, base)
        bo == DeclaredOrder(cls, base, attrs)
        swap == bo # "None" /\ host # bo
        grown == Extend(fb.lists, fb.ref, NewFields(attrs.ann, swap, host))
        bstg == BaseStorage(cls, base)
        new == IF attrs.has_ann
               THEN [base |-> base,
                     mro |-> <<Len(cls) + 1>> \o cls[base].mro,
                     has |-> BodyNames(attrs) \cup {"_fields_", "__annotations__"},
                     annotations |-> attrs.ann,
                     _byteorder |-> attrs._byteorder,
                     _pack_ |-> attrs._pack_,
                     _fields_ |-> fb.ref,
                     stg |-> StructLayout(grown[fb.ref], bstg, EffectivePack(cls, base, attrs))]
               ELSE [base |-> base,
                     mro |-> <<Len(cls) + 1>> \o cls[base].mro,
                     has |-> BodyNames(attrs),
                     annotations |-> <<>>,
                     _byteorder |-> attrs._byteorder,
                     _pack_ |-> attrs._pack_,
                     _fields_ |-> 0,
                     stg |-> [bstg EXCEPT !.descr = <<>>]]
    IN  [classes |-> Append(cls, new),
         lists |-> IF attrs.has_ann THEN grown ELSE lsts]

(***************************************************************************)
(* The classes the module defines when it is imported.                     *)
(***************************************************************************)
Structure ==
    [base |-> 0, mro |-> <<StructureId>>, has |-> {}, annotations |-> <<>>, _byteorder |-> "absent", _pack_ |-> 0,
     _fields_ |-> 0, stg |-> NoStorage]

\* class TCStruct(ctypes.Structure): _byteorder = None; __bytes__: Callable
TCStructBody == ClassBody("None", 0, FALSE, TRUE, <<[name |-> "__bytes__", type |-> Scalar("Callable")]>>)

\* class LittleEndianStruct(TCStruct): _byteorder = 'little'; _swappedbytes_ on a big host
LittleEndianStructBody(host) == ClassBody("little", 0, host # "little", FALSE, <<>>)

BigEndianStructBody(host) == ClassBody("big", 0, host # "big", FALSE, <<>>)

Imported(host) ==
    LET s1 == MetaNew(<<Structure>>, <<>>, host, StructureId, TCStructBody)
        s2 == MetaNew(s1.classes, s1.lists, host, TCStructId, LittleEndianStructBody(host))
        s3 == MetaNew(s2.classes, s2.lists, host, TCStructId, BigEndianStructBody(host))
    IN  s3

(***************************************************************************)
(* ctypes: storing a Python value in a field and reading it back.          *)
(* An integer is masked to the width of the C type (no overflow check); a  *)
(* float is converted to IEEE-754 single or double.  The value digits are  *)
(* least-significant first; a type of order "big" stores them reversed.    *)
(***************************************************************************)
\* as IntDigits, but a value too large for one byte saturates instead of wrapping
RECURSIVE IntDigitsSaturating(_, _)
IntDigitsSaturating(v, n) ==
    IF n = 0 THEN <<>>
    ELSE <<IF n = 1 /\ v > 255 THEN 255 ELSE v % 256>> \o IntDigitsSaturating(v \div 256, n - 1)

RECURSIVE IntDigits(_, _)
IntDigits(v, n) == IF n = 0 THEN <<>> ELSE <<v % 256>> \o IntDigits(v \div 256, n - 1)

\* struct / ctypes float conversion for the float values of the model
FloatDigits(kind, x) ==
    IF kind = "float32_t"
    THEN CASE x = "1.0" -> <<0, 0, 128, 63>>
           [] x = "2.0" -> <<0, 0, 0, 64>>
           [] x = "-1.234" -> <<182, 243, 157, 191>>
    ELSE CASE x = "1.0" -> <<0, 0, 0, 0, 0, 0, 240, 63>>
           [] x = "2.0" -> <<0, 0, 0, 0, 0, 0, 0, 64>>
           [] x = "-1.234" -> <<88, 57, 180, 200, 118, 190, 243, 191>>

ValueDigits(kind, v) ==
    IF IsFloat(kind) THEN FloatDigits(kind, v) ELSE IntDigits(v, _bitwidth(kind) \div 8)

\* the bytes one element occupies in the buffer
ToWire(typ, digits) == IF typ.order = "little" THEN digits ELSE Reverse(digits)

FromWire(typ, bytes) == IF typ.order = "little" THEN bytes ELSE Reverse(bytes)

RECURSIVE ArrayBytes(_, _)
ArrayBytes(typ, values) ==
    IF values = <<>> THEN <<>>
    ELSE ToWire(typ, ValueDigits(typ.kind, Head(values))) \o ArrayBytes(typ, Tail(values))

\* a scalar field takes a number, an array field a tuple of at most length numbers
FieldBytes(typ, value) ==
    IF typ.length = 0
    THEN ToWire(typ, ValueDigits(typ.kind, value))
    ELSE LET b == ArrayBytes(typ, value) IN b \o Zeros(SizeOf(typ) - Len(b))

(***************************************************************************)
(* Records.  A record is its class and its buffer of sizeof(class) bytes.  *)
(***************************************************************************)
NoRec == [cls |-> 0, buf |-> <<>>]

sizeof(cls, c) == cls[c].stg.size

\* self._fields_: the list the attribute lookup finds
_fields_(cls, lsts, c) == lsts[cls[Owner(cls, c, "_fields_")]._fields_]

FieldNames(cls, lsts, c) ==
    [i \in 1..Len(_fields_(cls, lsts, c)) |-> _fields_(cls, lsts, c)[i].name]

HasDescr(stg, name) == \E i \in DOMAIN stg.descr : stg.descr[i].name = name

\* the field descriptor the attribute lookup finds: the nearest class of the MRO that
\* created one of that name (the last of that name within one class)
Descriptor(cls, c, name) ==
    LET m == Mro(cls, c)
        i == CHOOSE j \in DOMAIN m :
                /\ HasDescr(cls[m[j]].stg, name)
                /\ \A k \in 1..(j - 1) : ~HasDescr(cls[m[k]].stg, name)
        d == cls[m[i]].stg.descr
        n == CHOOSE j \in DOMAIN d :
                /\ d[j].name = name
                /\ \A k \in (j + 1)..Len(d) : d[k].name # name
    IN  d[n]

IsField(cls, c, name) ==
    \E i \in DOMAIN Mro(cls, c) : HasDescr(cls[Mro(cls, c)[i]].stg, name)

\* setattr(self, name, value) through the field descriptor
SetField(cls, r, name, value) ==
    LET d == Descriptor(cls, r.cls, name)
    IN  [r EXCEPT !.buf = Poke(r.buf, d.offset, FieldBytes(d.typ, value))]

\* getattr(self, name): the value digits of each element, least significant first
RECURSIVE Elements(_, _)
Elements(typ, bytes) ==
    IF bytes = <<>> THEN <<>>
    ELSE <<FromWire(typ, SubSeq(bytes, 1, ElemSize(typ)))>>
         \o Elements(typ, SubSeq(bytes, ElemSize(typ) + 1, Len(bytes)))

GetField(cls, r, name) ==
    LET d == Descriptor(cls, r.cls, name)
    IN  Elements(d.typ, Peek(r.buf, d.offset, SizeOf(d.typ)))

\* ctypes.Structure.__init__(self, **kw): one setattr per item, in order
RECURSIVE StructureInit(_, _, _)
StructureInit(cls, r, kw) ==
    IF kw = <<>> THEN r
    ELSE StructureInit(cls, SetField(cls, r, Head(kw).name, Head(kw).value), Tail(kw))

\* dict(zip((name for name, *_ in self._fields_), args))
Zip(names, args) ==
    [i \in 1..Min(Len(names), Len(args)) |-> [name |-> names[i], value |-> args[i]]]

Keys(kw) == {kw[i].name : i \in DOMAIN kw}

\* as TCStructInit, without the check for a field given twice: the named value wins
TCStructInitUnchecked(cls, lsts, c, args, kwargs) ==
    [exc |-> "none",
     rec |-> StructureInit(cls, [cls |-> c, buf |-> Zeros(sizeof(cls, c))],
                           Zip(FieldNames(cls, lsts, c), args) \o kwargs),
     overlap |-> {}]

\* as TCStructInit, but a call that leaves a field out is refused
TCStructInitStrict(cls, lsts, c, args, kwargs) ==
    LET kwargs_new == Zip(FieldNames(cls, lsts, c), args)
        overlap == Keys(kwargs) \cap Keys(kwargs_new)
        self == [cls |-> c, buf |-> Zeros(sizeof(cls, c))]
    IN  IF overlap # {}
        THEN [exc |-> "TypeError", rec |-> NoRec, overlap |-> overlap]
        ELSE IF Keys(kwargs) \cup Keys(kwargs_new) # Range(FieldNames(cls, lsts, c))
        THEN [exc |-> "TypeError", rec |-> NoRec, overlap |-> {}]
        ELSE [exc |-> "none", rec |-> StructureInit(cls, self, kwargs_new \o kwargs),
              overlap |-> {}]

\* TCStruct.__init__(self, *args, **kwargs) on the zeroed instance ctypes allocated:
\* the record, or the TypeError of a field given twice (overlap.pop() names one of them)
TCStructInit(cls, lsts, c, args, kwargs) ==
    LET kwargs_new == Zip(FieldNames(cls, lsts, c), args)
        overlap == Keys(kwargs) \cap Keys(kwargs_new)
        self == [cls |-> c, buf |-> Zeros(sizeof(cls, c))]
    IN  IF overlap # {}
        THEN [exc |-> "TypeError", rec |-> NoRec, overlap |-> overlap]
        ELSE [exc |-> "none", rec |-> StructureInit(cls, self, kwargs_new \o kwargs),
              overlap |-> {}]

\* as from_bytes, but a short buffer is accepted and the missing bytes read as zero
from_bytesLenient(cls, c, data) ==
    [exc |-> "none",
     rec |-> [cls |-> c,
              buf |-> SubSeq(data \o Zeros(sizeof(cls, c)), 1, sizeof(cls, c))]]

\* cls.from_buffer_copy(data)
from_bytes(cls, c, data) ==
    IF Len(data) < sizeof(cls, c)
    THEN [exc |-> "ValueError", rec |-> NoRec]
    ELSE [exc |-> "none", rec |-> [cls |-> c, buf |-> SubSeq(data, 1, sizeof(cls, c))]]

\* as to_bytes, but the buffer comes out back to front
to_bytesReversed(r) == Reverse(r.buf)

\* bytes(self)
to_bytes(r) == r.buf

(***************************************************************************)
(* Inputs of the model: class bodies, argument values and byte buffers.    *)
(***************************************************************************)
Field(name, type) == [name |-> name, type |-> type]

\* the annotated bodies of the test suite and of the catalog's remaining kinds
Annotations ==
    << <<Field("value", Scalar("uint16_t"))>>,
       <<Field("common1", Scalar("uint32_t")), Field("common2", Scalar("uint32_t"))>>,
       <<Field("special1", Scalar("uint32_t"))>>,
       <<Field("magicnumber", Scalar("uint32_t")), Field("version", ArrayOf("uint8_t", 4)),
         Field("value", Scalar("uint16_t")), Field("fvalue", Scalar("float32_t")),
         Field("dvalue", Scalar("float64_t"))>>,
       <<Field("flag", Scalar("sint8_t")), Field("levels", ArrayOf("sint16_t", 2)),
         Field("count", Scalar("uint64_t")), Field("delta", Scalar("sint32_t")),
         Field("total", Scalar("sint64_t"))>>,
       <<Field("extra", Scalar("sint16_t"))>> >>

IntVals == <<4000, -2, 40000, 70000>>

FloatVals == <<"1.0", "2.0", "-1.234">>

Seeds == 0..(Len(IntVals) - 1)

ScalarArg(kind, n) ==
    IF IsFloat(kind) THEN FloatVals[(n % Len(FloatVals)) + 1]
    ELSE IntVals[(n % Len(IntVals)) + 1]

\* the value offered for a field of type typ: a number, or a tuple for an array
ArgValue(typ, n) ==
    IF typ.length = 0 THEN ScalarArg(typ.kind, n)
    ELSE [j \in 1..typ.length |-> ScalarArg(typ.kind, n + j)]

\* the i-th positional argument of a call on class c (an integer beyond the fields)
ArgAt(cls, lsts, c, seed, i) ==
    IF i <= Len(_fields_(cls, lsts, c))
    THEN ArgValue(_fields_(cls, lsts, c)[i].typ, seed + i)
    ELSE ScalarArg("uint8_t", seed + i)

PosArgs(cls, lsts, c, seed, k) == [i \in 1..k |-> ArgAt(cls, lsts, c, seed, i)]

\* named arguments for the fields from .. to of the field list, with a shifted seed
NamedArgs(cls, lsts, c, seed, from, to) ==
    [i \in 1..(to - from + 1) |->
        [name |-> _fields_(cls, lsts, c)[from + i - 1].name,
         value |-> ArgAt(cls, lsts, c, seed + 1, from + i - 1)]]

\* a buffer of n bytes
Data(seed, n) == [i \in 1..n |-> (seed * 85 + i * 67) % 256]

DataSeeds == {1, 2}

(***************************************************************************)
(* State machine.  A run imports the module, defines record types, then    *)
(* makes one record (by construction or from_bytes), may assign to it,     *)
(* encodes it and decodes the encoding.  call.op is the last step taken.   *)
(***************************************************************************)
Call(op, c, npos, from, to, seed, len) ==
    [op |-> op, cls |-> c, npos |-> npos, from |-> from, to |-> to, seed |-> seed,
     len |-> len, exc |-> "none", name |-> "", made |-> "", overlap |-> {}]

Init ==
    /\ byteorder \in {"little", "big"}
    /\ classes = Imported(byteorder).classes
    /\ lists = Imported(byteorder).lists
    /\ call = Call("import", 0, 0, 0, 0, 0, 0)
    /\ rec = NoRec
    /\ out = <<>>
    /\ outof = NoRec

UserClasses == {c \in DOMAIN classes : c > BigEndianStructId}

RecordClasses == {c \in DOMAIN classes : c >= TCStructId}

NewNames(ann) == {ann[i].name : i \in DOMAIN ann}

\* no record has been made yet
Idle == call.op \in {"import", "class"}

\* class <new>(<base>): [_byteorder = bo]; [_pack_ = pack]; <annotations>
DefineClass(base, bo, pack, a) ==
    /\ Idle
    /\ Cardinality(UserClasses) < MaxClasses
    /\ NewNames(Annotations[a]) \cap Range(FieldNames(classes, lists, base)) = {}
    /\ LET new == MetaNew(classes, lists, byteorder, base,
                          ClassBody(bo, pack, FALSE, TRUE, Annotations[a]))
       IN  /\ classes' = new.classes
           /\ lists' = new.lists
           /\ call' = Call("class", Len(classes) + 1, 0, 0, 0, 0, 0)
    /\ UNCHANGED <<byteorder, rec, out, outof>>

\* class <new>(<base>): pass
DeriveClass(base) ==
    /\ Idle
    /\ Cardinality(UserClasses) < MaxClasses
    /\ LET new == MetaNew(classes, lists, byteorder, base,
                          ClassBody("absent", 0, FALSE, FALSE, <<>>))
       IN  /\ classes' = new.classes
           /\ lists' = new.lists
           /\ call' = Call("class", Len(classes) + 1, 0, 0, 0, 0, 0)
    /\ UNCHANGED <<byteorder, rec, out, outof>>

\* <c>(*args, **kwargs): npos positional arguments, fields from..to by name
Construct(c, npos, from, to, seed) ==
    /\ Idle
    /\ LET r == TCStructInit(classes, lists, c,
                             PosArgs(classes, lists, c, seed, npos),
                             NamedArgs(classes, lists, c, seed, from, to))
       IN  /\ rec' = r.rec
           /\ call' = [Call("construct", c, npos, from, to, seed, 0)
                         EXCEPT !.exc = r.exc, !.made = "construct", !.overlap = r.overlap]
    /\ UNCHANGED <<byteorder, classes, lists, out, outof>>

\* <c>.from_bytes(data)
FromBytes(c, seed, len) ==
    /\ Idle
    /\ len >= 0
    /\ LET r == from_bytes(classes, c, Data(seed, len))
       IN  /\ rec' = r.rec
           /\ call' = [Call("from_bytes", c, 0, 0, 0, seed, len)
                         EXCEPT !.exc = r.exc, !.made = "from_bytes"]
    /\ UNCHANGED <<byteorder, classes, lists, out, outof>>

\* rec.<name> = value
Assign(i, seed) ==
    /\ call.op = "construct"
    /\ rec # NoRec
    /\ i \in DOMAIN _fields_(classes, lists, rec.cls)
    /\ LET f == _fields_(classes, lists, rec.cls)[i]
       IN  /\ rec' = SetField(classes, rec, f.name, ArgValue(f.typ, seed))
           /\ call' = [call EXCEPT !.op = "setattr", !.name = f.name, !.seed = seed]
    /\ UNCHANGED <<byteorder, classes, lists, out, outof>>

\* rec.to_bytes()
ToBytes ==
    /\ call.op \in {"construct", "from_bytes", "setattr"}
    /\ rec # NoRec
    /\ out' = to_bytes(rec)
    /\ outof' = rec
    /\ call' = [call EXCEPT !.op = "to_bytes"]
    /\ UNCHANGED <<byteorder, classes, lists, rec>>

\* type(rec).from_bytes(out): decode what to_bytes returned
Decode ==
    /\ call.op = "to_bytes"
    /\ LET r == from_bytes(classes, outof.cls, out)
       IN  /\ rec' = r.rec
           /\ call' = [call EXCEPT !.op = "decode", !.exc = r.exc]
    /\ UNCHANGED <<byteorder, classes, lists, out, outof>>

NumFields(c) == Len(_fields_(classes, lists, c))

\* the argument shapes of a call: all positional, all named, a split, a field given
\* twice, a field left out, one positional argument too many
Shapes(n) ==
    {s \in (0..(n + 1)) \X (1..(n + 1)) :
        s[2] \in {s[1], s[1] + 1, s[1] + 2, n + 1}}

(***************************************************************************)
(* Spec: derivation and byte order.  Record types with and without a       *)
(* declared byte order, derived from the library's types and from each     *)
(* other; records are made of the record type defined last.                *)
(***************************************************************************)
Bodies ==
    { [bo |-> "absent", pack |-> 0, a |-> 1],
      [bo |-> "absent", pack |-> 0, a |-> 2],
      [bo |-> "absent", pack |-> 0, a |-> 3],
      [bo |-> "big", pack |-> 0, a |-> 6] }

Latest == {c \in UserClasses : c = Len(classes)}

Next ==
    \/ \E base \in RecordClasses, b \in Bodies : DefineClass(base, b.bo, b.pack, b.a)
    \/ \E base \in RecordClasses : DeriveClass(base)
    \/ \E c \in Latest : \E s \in Shapes(NumFields(c)) :
          Construct(c, s[1], s[2], NumFields(c), 0)
    \/ \E c \in Latest, seed \in DataSeeds :
          \E len \in (sizeof(classes, c) - MaxExtra)..(sizeof(classes, c) + MaxExtra) :
             FromBytes(c, seed, len)
    \/ ToBytes
    \/ Decode

Spec == Init /\ [][Next]_vars

(***************************************************************************)
(* SpecLayout: layout and values.  The five-field record type of the test  *)
(* suite, natural and packed, and a record type of the remaining integer   *)
(* kinds; every field sees every argument value.                           *)
(***************************************************************************)
LayoutBodies ==
    { [bo |-> "absent", pack |-> 0, a |-> 4],
      [bo |-> "absent", pack |-> 1, a |-> 4],
      [bo |-> "absent", pack |-> 0, a |-> 5] }

NextLayout ==
    \/ \E base \in RecordClasses, b \in LayoutBodies : DefineClass(base, b.bo, b.pack, b.a)
    \/ \E c \in Latest, seed \in Seeds :
          \/ Construct(c, NumFields(c), NumFields(c) + 1, NumFields(c), seed)
          \/ Construct(c, 0, 1, NumFields(c), seed)
    \/ \E i \in 1..5, seed \in Seeds : call.npos = 0 /\ call.seed = 0 /\ Assign(i, seed)
    \/ \E c \in Latest, seed \in DataSeeds : FromBytes(c, seed, sizeof(classes, c))
    \/ ToBytes
    \/ Decode

SpecLayout == Init /\ [][NextLayout]_vars

(***************************************************************************)
(* Vocabulary of the properties.  These definitions restate what the       *)
(* specification expects; they do not use the conversion operators above.  *)
(***************************************************************************)
Fields(c) == _fields_(classes, lists, c)

\* field i of the last construct call was given by position / by name
ByPosition(i) == i <= Min(call.npos, NumFields(call.cls))

ByName(i) == i >= call.from /\ i <= call.to

GivenTwice == \E i \in 1..NumFields(call.cls) : ByPosition(i) /\ ByName(i)

\* the argument the last construct call supplied for field i
Supplied(i) ==
    IF ByPosition(i) THEN ArgAt(classes, lists, call.cls, call.seed, i)
    ELSE ArgAt(classes, lists, call.cls, call.seed + 1, i)

\* the elements of an argument: the number itself, or the numbers of the tuple
ArgElems(typ, arg) == IF typ.length = 0 THEN <<arg>> ELSE arg

\* byte j (0: least significant) of v mod 2^w, for |v| < 2^24
WrappedByte(v, j) ==
    IF j < 3 THEN (v \div (256 ^ j)) % 256
    ELSE IF v < 0 THEN 255 ELSE 0

\* the number a stored element of at most 16 bits reads as
Reads(kind, e) ==
    LET u == IF Len(e) = 1 THEN e[1] ELSE e[1] + 256 * e[2]
        half == IF Len(e) = 1 THEN 128 ELSE 32768
    IN  IF _signed(kind) /\ u >= half THEN u - 2 * half ELSE u

\* element e of a field of integer kind holds v truncated to the width of the kind
HoldsTruncated(kind, e, v) ==
    LET w == _bitwidth(kind)
        m == IF w = 8 THEN 256 ELSE 65536
    IN  /\ Len(e) = w \div 8
        /\ \A j \in 0..(Len(e) - 1) : e[j + 1] = WrappedByte(v, j)
        /\ w <= 16 =>
              /\ (Reads(kind, e) - v) % m = 0
              /\ IF _signed(kind)
                 THEN Reads(kind, e) >= -(m \div 2) /\ Reads(kind, e) < m \div 2
                 ELSE Reads(kind, e) = v % m

\* field i of record r holds the argument arg, element by element
FieldHolds(r, i, arg) ==
    LET f == Fields(r.cls)[i]
        got == GetField(classes, r, f.name)
        want == ArgElems(f.typ, arg)
    IN  /\ Len(got) = Len(want)
        /\ \A j \in DOMAIN want :
              IF IsFloat(f.typ.kind)
              THEN got[j] = FloatDigits(f.typ.kind, want[j])
              ELSE HoldsTruncated(f.typ.kind, got[j], want[j])

IntField(c, i) == ~IsFloat(Fields(c)[i].typ.kind)

(***************************************************************************)
(* C2  Truncation.  Constructing a record with, or assigning, an integer   *)
(* v to an integer field of width w never fails and stores v mod 2^w       *)
(* (unsigned) or the value of [-2^(w-1), 2^(w-1)) congruent to v (signed), *)
(* for scalars and array elements alike, whatever the byte order.          *)
(***************************************************************************)
C2_Truncation ==
    /\ (call.op = "construct" /\ ~GivenTwice) =>
          /\ call.exc = "none"
          /\ \A i \in 1..NumFields(call.cls) :
                (IntField(call.cls, i) /\ (ByPosition(i) \/ ByName(i)))
                   => FieldHolds(rec, i, Supplied(i))
    /\ call.op = "setattr" =>
          \A i \in 1..NumFields(rec.cls) :
             (Fields(rec.cls)[i].name = call.name /\ IntField(rec.cls, i))
                => FieldHolds(rec, i, ArgValue(Fields(rec.cls)[i].typ, call.seed))

\* 4000 reads back as 160 from a uint8_t element and -2 as 65534 from a uint16_t field
C2_Witness ==
    /\ call.op = "construct"
    /\ call.exc = "none"
    /\ \E i, k \in 1..NumFields(call.cls) :
          /\ ByPosition(i) /\ ByPosition(k)
          /\ Fields(call.cls)[i].typ.kind = "uint8_t"
          /\ Fields(call.cls)[i].typ.order = "big"
          /\ \E j \in 1..Fields(call.cls)[i].typ.length :
                /\ Supplied(i)[j] = 4000
                /\ Reads("uint8_t", GetField(classes, rec, Fields(call.cls)[i].name)[j]) = 160
          /\ Fields(call.cls)[k].typ.kind = "uint16_t"
          /\ Supplied(k) = -2
          /\ Reads("uint16_t", GetField(classes, rec, Fields(call.cls)[k].name)[1]) = 65534

(***************************************************************************)
(* C1  Round trip.  from_bytes(r.to_bytes()) yields a record of the same   *)
(* type whose every field (each array element) equals the value stored in  *)
(* r, and from_bytes(b).to_bytes() = b for every b of exactly the size of  *)
(* the type (the size ctypes allocates for it).                            *)
(***************************************************************************)
C1_RoundTrip ==
    /\ call.op = "decode" =>
          /\ call.exc = "none"
          /\ rec.cls = outof.cls
          /\ \A i \in 1..NumFields(outof.cls) :
                GetField(classes, rec, Fields(outof.cls)[i].name)
                   = GetField(classes, outof, Fields(outof.cls)[i].name)
    /\ (call.op = "to_bytes" /\ call.made = "from_bytes"
           /\ call.len = sizeof(classes, call.cls))
          => out = Data(call.seed, call.len)

\* a constructed record of a packed, derived type with byte-swapped fields was decoded
\* from its own encoding, and its second element of the first field is not zero
C1_Witness ==
    /\ call.op = "decode"
    /\ call.made = "construct"
    /\ call.exc = "none"
    /\ classes[rec.cls].base \in UserClasses
    /\ hasattr(classes, rec.cls, "_pack_")
    /\ \E i \in 1..NumFields(rec.cls) :
          /\ Fields(rec.cls)[i].typ.order # byteorder
          /\ Fields(rec.cls)[i].typ.length > 0
          /\ GetField(classes, rec, Fields(rec.cls)[i].name)[2] # Zeros(ElemSize(Fields(rec.cls)[i].typ))

\* bytes that arrive by from_bytes leave unchanged by to_bytes
C1_WitnessBytes ==
    /\ call.op = "to_bytes"
    /\ call.made = "from_bytes"
    /\ out = Data(call.seed, sizeof(classes, call.cls))
    /\ Len(out) > 20

(***************************************************************************)
(* C5  Packed and natural layout.  The record type with the fields uint32, *)
(* uint8[4], uint16, float32, float64 and no inherited field has offsets   *)
(* 0, 4, 8, 12, 16, size 24 and the padding bytes 10 and 11 (zero in an    *)
(* encoded constructed record); with _pack_ = 1 it has offsets 0, 4, 8,    *)
(* 10, 14, no padding and size 22, the sum of the field sizes.  The bytes  *)
(* of each field are the same in both modes.                               *)
(***************************************************************************)
FiveFields(c) ==
    /\ c \in UserClasses
    /\ classes[c].annotations = Annotations[4]
    /\ NumFields(classes[c].base) = 0

Packed(c) == hasattr(classes, c, "_pack_")

Offsets(c) == [i \in 1..NumFields(c) |-> Descriptor(classes, c, Fields(c)[i].name).offset]

Sizes(c) == [i \in 1..NumFields(c) |-> SizeOf(Fields(c)[i].typ)]

RECURSIVE Sum(_)
Sum(s) == IF s = <<>> THEN 0 ELSE Head(s) + Sum(Tail(s))

\* the offsets of the bytes of a record of size n that belong to no field
Padding(offs, szs, n) ==
    {b \in 0..(n - 1) : \A i \in DOMAIN offs : b < offs[i] \/ b >= offs[i] + szs[i]}

\* the record class c2 constructs from the arguments of the last construct call
Same(c2) ==
    TCStructInit(classes, lists, c2,
                 PosArgs(classes, lists, c2, call.seed, call.npos),
                 NamedArgs(classes, lists, c2, call.seed, call.from, call.to)).rec

\* C5: offsets, padding and size of the five-field type, natural and packed, and equal
\* field bytes in both.  The layout of a class is fixed when the class is created: it is
\* examined in the states that follow the class definitions, the encodings in the states
\* of the records
C5_Layout ==
    \A c \in UserClasses : FiveFields(c) =>
       /\ Idle =>
             LET offs == Offsets(c)
                 szs == Sizes(c)
                 n == sizeof(classes, c)
             IN  IF Packed(c)
                 THEN /\ offs = <<0, 4, 8, 10, 14>>
                      /\ n = 22
                      /\ n = Sum(szs)
                      /\ Padding(offs, szs, n) = {}
                 ELSE /\ offs = <<0, 4, 8, 12, 16>>
                      /\ n = 24
                      /\ Padding(offs, szs, n) = {10, 11}
       /\ (call.op = "to_bytes" /\ call.made = "construct" /\ outof.cls = c) =>
             IF Packed(c) THEN Len(out) = 22
             ELSE Len(out) = 24 /\ out[11] = 0 /\ out[12] = 0
       /\ (call.op = "construct" /\ call.exc = "none" /\ call.cls = c) =>
             \A c2 \in UserClasses :
                (FiveFields(c2) /\ c2 # c /\ Fields(c2) = Fields(c)) =>
                   LET other == Same(c2).buf
                       offs == Offsets(c)
                       offs2 == Offsets(c2)
                       szs == Sizes(c)
                   IN  \A i \in DOMAIN offs :
                          Peek(rec.buf, offs[i], szs[i]) = Peek(other, offs2[i], szs[i])

\* a packed record was constructed while the natural type of the same fields exists
C5_Witness ==
    /\ call.op = "construct"
    /\ call.exc = "none"
    /\ FiveFields(call.cls)
    /\ Packed(call.cls)
    /\ \E c2 \in UserClasses :
          /\ FiveFields(c2) /\ ~Packed(c2) /\ Fields(c2) = Fields(call.cls)
          /\ Offsets(c2) # Offsets(call.cls)
    /\ Peek(rec.buf, Offsets(call.cls)[3], 2) # <<0, 0>>

(***************************************************************************)
(* C7  Duplicate argument.  A call whose named arguments name one of the   *)
(* fields its positional arguments fill fails with a TypeError that names  *)
(* such a field, and no record is created; otherwise the positional and    *)
(* the named values are merged and each is assigned to its field.          *)
(***************************************************************************)
C7_DuplicateArgument ==
    call.op = "construct" =>
       IF GivenTwice
       THEN /\ call.exc = "TypeError"
            /\ rec = NoRec
            /\ call.overlap # {}
            /\ \A name \in call.overlap :
                  \E i \in 1..NumFields(call.cls) :
                     Fields(call.cls)[i].name = name /\ ByPosition(i) /\ ByName(i)
       ELSE /\ call.exc = "none"
            /\ rec.cls = call.cls
            /\ \A i \in 1..NumFields(call.cls) :
                  (ByPosition(i) \/ ByName(i)) => FieldHolds(rec, i, Supplied(i))

\* a call failed on a duplicate although a later field was left out
C7_Witness ==
    /\ call.op = "construct"
    /\ call.exc = "TypeError"
    /\ rec = NoRec
    /\ "common1" \in call.overlap
    /\ call.npos = 1

(***************************************************************************)
(* C8  Missing field.  As claimed: a call that supplies values for fewer   *)
(* fields than the record type has fails and creates no record.            *)
(***************************************************************************)
LeftOut(i) == ~ByPosition(i) /\ ~ByName(i)

\* C8 as claimed: a construct call that leaves a field out fails and leaves no record
C8_MissingFieldFails ==
    (call.op = "construct" /\ \E i \in 1..NumFields(call.cls) : LeftOut(i))
       => (call.exc # "none" /\ rec = NoRec)

(***************************************************************************)
(* C8, amended.  A call that leaves fields out and gives no field twice    *)
(* succeeds: the record has the full size of its type, the fields given    *)
(* hold their values and every field left out reads as zero.               *)
(***************************************************************************)
\* C8 amended: fields left out read as zero, the call succeeds
C8_MissingFieldZero ==
    (call.op = "construct" /\ ~GivenTwice) =>
       /\ call.exc = "none"
       /\ Len(rec.buf) = sizeof(classes, call.cls)
       /\ \A i \in 1..NumFields(call.cls) :
             IF LeftOut(i)
             THEN \A j \in DOMAIN GetField(classes, rec, Fields(call.cls)[i].name) :
                     GetField(classes, rec, Fields(call.cls)[i].name)[j]
                        = Zeros(ElemSize(Fields(call.cls)[i].typ))
             ELSE FieldHolds(rec, i, Supplied(i))

\* a record was made from one positional argument although its type has two fields
C8_Witness ==
    /\ call.op = "construct"
    /\ call.exc = "none"
    /\ NumFields(call.cls) >= 2
    /\ ByPosition(1) /\ LeftOut(2)
    /\ rec # NoRec
    /\ GetField(classes, rec, Fields(call.cls)[1].name)[1] # Zeros(ElemSize(Fields(call.cls)[1].typ))

(***************************************************************************)
(* C6  Decode length rule.  from_bytes on a type of size n fails and       *)
(* returns no record when the buffer is shorter than n; otherwise it       *)
(* succeeds, the record is the one the first n bytes alone give, and the   *)
(* trailing bytes do not appear in a later to_bytes.                       *)
(***************************************************************************)
C6_DecodeLength ==
    /\ call.op = "from_bytes" =>
          LET n == sizeof(classes, call.cls)
              data == Data(call.seed, call.len)
          IN  IF call.len < n
              THEN call.exc = "ValueError" /\ rec = NoRec
              ELSE /\ call.exc = "none"
                   /\ rec.cls = call.cls
                   /\ rec = from_bytes(classes, call.cls, SubSeq(data, 1, n)).rec
                   /\ \A i \in 1..NumFields(call.cls) :
                         LET d == Descriptor(classes, call.cls, Fields(call.cls)[i].name)
                         IN  Peek(rec.buf, d.offset, SizeOf(d.typ))
                                = Peek(data, d.offset, SizeOf(d.typ))
    /\ (call.op = "to_bytes" /\ call.made = "from_bytes") =>
          /\ Len(out) = sizeof(classes, call.cls)
          /\ out = SubSeq(Data(call.seed, call.len), 1, sizeof(classes, call.cls))

\* a record decoded from a buffer with a trailing byte was encoded without it
C6_Witness ==
    /\ call.op = "to_bytes"
    /\ call.made = "from_bytes"
    /\ call.len = Len(out) + 1
    /\ Len(out) > 0

(***************************************************************************)
(* C4  Inheritance composition.  The field list of a record type is the    *)
(* field list of its ancestor, in the original order, followed by its own  *)
(* annotated fields in declaration order; a call with all arguments by     *)
(* position assigns the i-th argument to the i-th field of that list and   *)
(* gives the same record as naming each field.                             *)
(***************************************************************************)
OwnFields(c) == "_fields_" \in classes[c].has

\* C4: the field list is the ancestor's list followed by the own annotations, and
\* positional arguments go to the fields of that list in order
C4_Inheritance ==
    /\ Idle =>
          \A c \in UserClasses : OwnFields(c) =>
             LET b == classes[c].base
                 own == classes[c].annotations
             IN  /\ NumFields(c) = NumFields(b) + Len(own)
                 /\ \A i \in 1..NumFields(b) : Fields(c)[i] = Fields(b)[i]
                 /\ \A j \in DOMAIN own :
                       /\ Fields(c)[NumFields(b) + j].name = own[j].name
                       /\ Fields(c)[NumFields(b) + j].typ.kind = own[j].type.kind
                       /\ Fields(c)[NumFields(b) + j].typ.length = own[j].type._array
    /\ (call.op = "construct" /\ call.npos = NumFields(call.cls)
           /\ call.from = call.npos + 1) =>
          /\ call.exc = "none"
          /\ \A i \in 1..NumFields(call.cls) :
                FieldHolds(rec, i, ArgAt(classes, lists, call.cls, call.seed, i))
          /\ rec = TCStructInit(classes, lists, call.cls, <<>>,
                                NamedArgs(classes, lists, call.cls, call.seed - 1,
                                          1, NumFields(call.cls))).rec

\* a record of a type that adds a field to two inherited ones, made from three
\* positional arguments that differ
C4_Witness ==
    /\ call.op = "construct"
    /\ call.exc = "none"
    /\ classes[call.cls].base \in UserClasses
    /\ NumFields(classes[call.cls].base) = 2
    /\ NumFields(call.cls) = 3
    /\ call.npos = 3 /\ call.from = 4
    /\ GetField(classes, rec, "common1") # GetField(classes, rec, "common2")
    /\ GetField(classes, rec, "common2") # GetField(classes, rec, Fields(call.cls)[3].name)

(***************************************************************************)
(* C10  Schema isolation.  No step (a class definition, a construction, an *)
(* encode or a decode) changes the field list, the field offsets or the    *)
(* size of a record type that exists.                                      *)
(***************************************************************************)
C10_Isolation ==
    [][\A c \in DOMAIN classes :
          /\ c \in DOMAIN classes'
          /\ classes'[c] = classes[c]
          /\ hasattr(classes, c, "_fields_") =>
                _fields_(classes', lists', c) = _fields_(classes, lists, c)]_vars

\* a record of a derived type was encoded and decoded; its ancestor, which has fields of
\* its own, and a sibling of that ancestor exist
C10_Witness ==
    /\ call.op = "decode"
    /\ classes[rec.cls].base \in UserClasses
    /\ NumFields(classes[rec.cls].base) > 0
    /\ NumFields(rec.cls) > NumFields(classes[rec.cls].base)

(***************************************************************************)
(* C9  Encoded size of a derived record.  As claimed: for a record type    *)
(* derived from an ancestor that has fields, to_bytes emits each field of  *)
(* the field list once, so the output has the size of that field list laid *)
(* out from offset 0, the first field is at offset 0, and from_bytes       *)
(* accepts a buffer of that size.                                          *)
(***************************************************************************)
\* the size of a field list laid out on its own
ListSize(c) == StructLayout(Fields(c), NoStorage, EffectivePack(classes, c, classes[c])).size

\* C9 as claimed: a derived record is as large as its field list, starts at offset 0,
\* and from_bytes accepts a buffer of that size
C9_DerivedSize ==
    \A c \in UserClasses :
       (OwnFields(c) /\ NumFields(classes[c].base) > 0) =>
          /\ Offsets(c)[1] = 0
          /\ sizeof(classes, c) = ListSize(c)
          /\ (call.op = "to_bytes" /\ outof.cls = c) => Len(out) = ListSize(c)
          /\ from_bytes(classes, c, Zeros(ListSize(c))).exc = "none"

(***************************************************************************)
(* C3  Byte order of the encoding.  As claimed: a record type without a    *)
(* declared byte order has the order of its nearest ancestor that declares *)
(* one (native, the order of the host, when that is None); to_bytes writes *)
(* every field element least significant byte first when that order is     *)
(* little and most significant byte first when it is big, on either host,  *)
(* and from_bytes reads the same values back.                              *)
(***************************************************************************)
EffectiveOrder(c) ==
    LET bo == classes[Owner(classes, c, "_byteorder")]._byteorder
    IN  IF bo = "None" THEN byteorder ELSE bo

\* the bytes of v in a field element of n bytes, in the given order
Wire(order, v, n) ==
    [j \in 1..n |-> IF order = "little" THEN WrappedByte(v, j - 1) ELSE WrappedByte(v, n - j)]

\* the bytes of field i in the encoding out of a record of class c
Encoded(c, i) == Peek(out, Offsets(c)[i], Sizes(c)[i])

\* C3 as claimed: every scalar field is encoded in the effective byte order of the
\* record type, and decoding reads the same values back
C3_ByteOrder ==
    /\ (call.op = "to_bytes" /\ call.made = "construct" /\ call.exc = "none") =>
          \A i \in 1..NumFields(call.cls) :
             (Fields(call.cls)[i].typ.length = 0 /\ (ByPosition(i) \/ ByName(i))) =>
                Encoded(call.cls, i)
                   = Wire(EffectiveOrder(call.cls), Supplied(i), Sizes(call.cls)[i])
    /\ call.op = "decode" =>
          \A i \in 1..NumFields(outof.cls) :
             GetField(classes, rec, Fields(outof.cls)[i].name)
                = GetField(classes, outof, Fields(outof.cls)[i].name)

====
